---- MODULE Spec2Model ----
(***************************************************************************)
(* Model of the trickster cache Index (package cache) and of the named     *)
(* lock manager (package locks).                                           *)
(*                                                                         *)
(* Index part: every Index is the record [CacheSize, ObjectCount, Objects] *)
(* of the Go struct; all Index instances share the single package-level    *)
(* mutex indexLock.  Each Index has a client thread (the proxy calling     *)
(* UpdateObject / UpdateObjectAccessTime / RemoveObject), a reaper thread  *)
(* and a flusher thread.                                                   *)
(***************************************************************************)
EXTENDS Integers, Sequences, FiniteSets, TLC

\* ------------------------------------------------------------------ bounds
\* the clock (time.Now()) takes the values 0..MaxTime
MaxTime == 2
\* payloads (Object.Value) have 0..MaxLen bytes
MaxLen == 1
\* |CacheSize - sum of sizes| is kept within MaxDrift by the guards
MaxDrift == 1

\* callers of the named lock manager
NumProcs == 3
\* payloads of the entries of an Index at the start of SpecReap have 0..MaxSize bytes
MaxSize == 2

\* --------------------------------------------------------------- constants
IndexKey == "cache.index"

Indexes == {"A", "B"}
Roles == {"client", "reaper", "flusher"}
Threads == Indexes \X Roles
\* the value of indexLock when no thread holds it
NoThread == <<>>

IndexOf(t) == t[1]
RoleOf(t) == t[2]

\* keys a client passes to the Index
Keys == {"a", "b", IndexKey}
\* payload byte strings: only their length is ever read
Payloads == {[j \in 1..n |-> 0] : n \in 0..MaxLen}
\* expiration timestamps given by clients
Expirations == {1, MaxTime}

\* config.CacheIndexConfig values an Index is constructed with
NoLimits == [MaxSizeBytes |-> 0, MaxSizeBackoffBytes |-> 0, MaxSizeObjects |-> 0, MaxSizeBackoffObjects |-> 0]
BytesLimit == [MaxSizeBytes |-> 2, MaxSizeBackoffBytes |-> 1, MaxSizeObjects |-> 0, MaxSizeBackoffObjects |-> 0]
ObjectsLimit == [MaxSizeBytes |-> 0, MaxSizeBackoffBytes |-> 0, MaxSizeObjects |-> 1, MaxSizeBackoffObjects |-> 0]
ObjectsBackoff == [MaxSizeBytes |-> 0, MaxSizeBackoffBytes |-> 0, MaxSizeObjects |-> 2, MaxSizeBackoffObjects |-> 1]
Configs == {BytesLimit, ObjectsLimit}

VARIABLES
    now,        \* the wall clock read by time.Now()
    idx,        \* idx[i]: the Index struct of instance i
    config,     \* config[i]: idx.config
    indexLock,  \* the package-level mutex: the thread holding it, or NoThread
    pc,         \* pc[t]: position of thread t
    removals,   \* removals[i]: local of reap()
    remainders, \* remainders[i]: local of reap(), as the set of keys of the objects
    reapNow,    \* reapNow[i]: local `now` of reap()
    cbCalls,    \* cbCalls[i]: calls of bulkRemoveFunc made by the current or last reap cycle
    bytes,      \* bytes[i]: local of flusher(): the serialized index
    flushed,    \* flushed[i]: calls of flushFunc made by the flusher
    indexData,  \* indexData[i]: the persisted bytes NewIndex is called with
    ret         \* ret[i]: the results NewIndex has returned, <<>> before it returns

VARIABLES
    locks,      \* the package-level map: lock name -> *sync.Mutex
    mutex,      \* mutex[m]: TRUE when the mutex object m is locked
    lpc,        \* lpc[p]: position of caller p
    lockName,   \* lockName[p]: the argument of p's Acquire and Release
    l,          \* l[p]: the local l of Acquire, afterwards the handle it returned; 0 is nil
    fatal       \* the runtime stopped the program: unlock of unlocked mutex

lvars == <<locks, mutex, lpc, lockName, l, fatal>>

newVars == <<indexData, ret>>

ivars == <<now, idx, config, indexLock, pc, removals, remainders, reapNow, cbCalls, bytes, flushed, newVars>>

\* ----------------------------------------------------------------- helpers
RECURSIVE SumSizes(_, _)
SumSizes(objs, ks) ==
    IF ks = {} THEN 0
    ELSE LET k == CHOOSE x \in ks : TRUE
         IN objs[k].Size + SumSizes(objs, ks \ {k})

\* every ordering of the elements of S
SeqsOf(S) ==
    {s \in [1..Cardinality(S) -> S] : \A a, b \in 1..Cardinality(S) : a # b => s[a] # s[b]}

Range(s) == {s[j] : j \in 1..Len(s)}

\* make(map[string]*Object)
EmptyObjects == [k \in {} |-> k]

\* NewIndex with empty indexData: &Index{} with an empty Objects map
NewIndex == [CacheSize |-> 0, ObjectCount |-> 0, Objects |-> EmptyObjects]

\* the Object a client hands to UpdateObject; LastWrite, LastAccess and Size
\* are overwritten by UpdateObject, so the client's values do not matter
ClientObject(key, value, expiration) ==
    [Key |-> key, Expiration |-> expiration, LastWrite |-> 0, LastAccess |-> 0,
     Size |-> 0, Value |-> value]

\* ------------------------------------------------- the Index's operations
\* UpdateObjectAccessTime stamping LastWrite as well
AccessTimeBodyWrites(ix, key, t) ==
    IF key \in DOMAIN ix.Objects
    THEN [ix EXCEPT !.Objects[key].LastAccess = t, !.Objects[key].LastWrite = t]
    ELSE ix

\* body of UpdateObjectAccessTime, between Lock and Unlock
AccessTimeBody(ix, key, t) ==
    IF key \in DOMAIN ix.Objects
    THEN [ix EXCEPT !.Objects[key].LastAccess = t]
    ELSE ix

\* body of UpdateObject, between Lock and Unlock.  `o` and idx.Objects[key]
\* are the same prior entry, so the code adds o.Size - o.Size.
UpdateBody(ix, obj, t) ==
    LET key == obj.Key
        new == [obj EXCEPT !.Size = Len(obj.Value), !.Value = <<>>,
                           !.LastAccess = t, !.LastWrite = t]
    IN  IF key \in DOMAIN ix.Objects
        THEN LET o == ix.Objects[key]
             IN [CacheSize |-> ix.CacheSize + (o.Size - ix.Objects[key].Size),
                 ObjectCount |-> ix.ObjectCount,
                 Objects |-> [ix.Objects EXCEPT ![key] = new]]
        ELSE [CacheSize |-> ix.CacheSize + new.Size,
              ObjectCount |-> ix.ObjectCount + 1,
              Objects |-> [k \in DOMAIN ix.Objects \cup {key} |->
                              IF k = key THEN new ELSE ix.Objects[k]]]

\* RemoveObject forgetting idx.ObjectCount--
RemoveBodyKeepsCount(ix, key) ==
    IF key \in DOMAIN ix.Objects
    THEN [CacheSize |-> ix.CacheSize - ix.Objects[key].Size,
          ObjectCount |-> ix.ObjectCount,
          Objects |-> [k \in DOMAIN ix.Objects \ {key} |-> ix.Objects[k]]]
    ELSE ix

\* body of RemoveObject, after the optional Lock
RemoveBody(ix, key) ==
    IF key \in DOMAIN ix.Objects
    THEN [CacheSize |-> ix.CacheSize - ix.Objects[key].Size,
          ObjectCount |-> ix.ObjectCount - 1,
          Objects |-> [k \in DOMAIN ix.Objects \ {key} |-> ix.Objects[k]]]
    ELSE ix

\* the bulk-removal callback of the owning cache: removes every given key
\* from the index through RemoveObject(key, noLock)
RECURSIVE BulkRemove(_, _)
BulkRemove(ix, keys) ==
    IF keys = <<>> THEN ix
    ELSE BulkRemove(RemoveBody(ix, Head(keys)), Tail(keys))

\* ---------------------------------------------------------------- reap()
\* the scan without its `if o.Key == IndexKey { continue }`
NothingReserved(o) == FALSE

\* o.Key == IndexKey
IsReserved(o) == o.Key = IndexKey

\* !o.Expiration.After(now) in place of Before
ExpiredOrNow(o, t) == o.Expiration <= t

\* o.Expiration.Before(now)
Expired(o, t) == o.Expiration < t

\* the keys reap() appends to removals in its scan of idx.Objects
ExpiredKeys(ix, t) ==
    {k \in DOMAIN ix.Objects : ~IsReserved(ix.Objects[k]) /\ Expired(ix.Objects[k], t)}

\* the keys of the objects reap() appends to remainders
RemainderKeys(ix, t) ==
    {k \in DOMAIN ix.Objects : ~IsReserved(ix.Objects[k]) /\ ~Expired(ix.Objects[k], t)}

\* obectsAtime.Less
Less(a, b) == a.LastAccess < b.LastAccess

\* the results sort.Sort(remainders) can give: sort.Sort is not stable and
\* the slice starts in map iteration order, so every ordering in which no
\* element is Less than an earlier one
Sorted(ix, ks) ==
    {s \in SeqsOf(ks) : \A a, b \in 1..Len(s) :
        a < b => ~Less(ix.Objects[s[b]], ix.Objects[s[a]])}

\* the condition of the outer if of the eviction phase
Pressure(ix, cfg, rem) ==
    /\ \/ cfg.MaxSizeBytes > 0 /\ ix.CacheSize > cfg.MaxSizeBytes
       \/ cfg.MaxSizeObjects > 0 /\ ix.ObjectCount > cfg.MaxSizeObjects
    /\ Cardinality(rem) > 0

EvictionType(ix, cfg) ==
    IF ix.CacheSize > cfg.MaxSizeBytes THEN "size_bytes"
    ELSE IF ix.ObjectCount > cfg.MaxSizeObjects THEN "size_objects"
    ELSE "return"

BytesNeeded(ix, cfg) ==
    (ix.CacheSize - cfg.MaxSizeBytes)
      + (IF cfg.MaxSizeBytes > cfg.MaxSizeBackoffBytes THEN cfg.MaxSizeBackoffBytes ELSE 0)

ObjectsNeeded(ix, cfg) ==
    (ix.ObjectCount - cfg.MaxSizeObjects)
      + (IF cfg.MaxSizeObjects > cfg.MaxSizeBackoffObjects THEN cfg.MaxSizeBackoffObjects ELSE 0)

\* the loop with `bytesSelected <= bytesNeeded`
RECURSIVE SelectBytesOffByOne(_, _, _, _, _)
SelectBytesOffByOne(ix, sorted, i, bytesSelected, bytesNeeded) ==
    IF bytesSelected <= bytesNeeded /\ i <= Len(sorted)
    THEN <<sorted[i]>> \o SelectBytesOffByOne(ix, sorted, i + 1,
                              bytesSelected + ix.Objects[sorted[i]].Size, bytesNeeded)
    ELSE <<>>

\* the loop `for bytesSelected < bytesNeeded && i < j`, from index i on
RECURSIVE SelectBytes(_, _, _, _, _)
SelectBytes(ix, sorted, i, bytesSelected, bytesNeeded) ==
    IF bytesSelected < bytesNeeded /\ i <= Len(sorted)
    THEN <<sorted[i]>> \o SelectBytes(ix, sorted, i + 1,
                              bytesSelected + ix.Objects[sorted[i]].Size, bytesNeeded)
    ELSE <<>>

\* the loop stopping one object short
RECURSIVE SelectObjectsOneShort(_, _, _, _)
SelectObjectsOneShort(sorted, i, objectsSelected, objectsNeeded) ==
    IF objectsSelected + 1 < objectsNeeded /\ i <= Len(sorted)
    THEN <<sorted[i]>> \o SelectObjectsOneShort(sorted, i + 1, objectsSelected + 1, objectsNeeded)
    ELSE <<>>

\* the loop `for objectsSelected < objectsNeeded && i < j`, from index i on
RECURSIVE SelectObjects(_, _, _, _)
SelectObjects(sorted, i, objectsSelected, objectsNeeded) ==
    IF objectsSelected < objectsNeeded /\ i <= Len(sorted)
    THEN <<sorted[i]>> \o SelectObjects(sorted, i + 1, objectsSelected + 1, objectsNeeded)
    ELSE <<>>

\* the removals of the eviction phase for one result of the sort
Evictions(ix, cfg, sorted) ==
    IF EvictionType(ix, cfg) = "size_bytes"
    THEN SelectBytes(ix, sorted, 1, 0, BytesNeeded(ix, cfg))
    ELSE IF EvictionType(ix, cfg) = "size_objects"
    THEN SelectObjects(sorted, 1, 0, ObjectsNeeded(ix, cfg))
    ELSE <<>>

\* the argument list of one bulkRemoveFunc call
Call(keys, lockHeld) == [keys |-> keys, lockHeld |-> lockHeld]

\* idx.MarshalMsg(nil): the msgp encoding of the exported fields
MarshalMsg(ix) ==
    <<ix.CacheSize, ix.ObjectCount,
      {<<k, ix.Objects[k].Key, ix.Objects[k].Expiration, ix.Objects[k].LastWrite,
         ix.Objects[k].LastAccess, ix.Objects[k].Size>> : k \in DOMAIN ix.Objects}>>

\* the Objects map decoded from its encoding
DecodeObjects(S) ==
    [k \in {o[1] : o \in S} |->
        LET o == CHOOSE x \in S : x[1] = k
        IN [Key |-> o[2], Expiration |-> o[3], LastWrite |-> o[4], LastAccess |-> o[5],
            Size |-> o[6], Value |-> <<>>]]

\* i.UnmarshalMsg(data) on a new Index: the fields are decoded one after
\* the other; data that ends early gives an error and leaves the fields not
\* reached at their zero value (Objects nil)
UnmarshalMsg(data) ==
    [err |-> Len(data) < 3,
     index |-> [CacheSize |-> IF Len(data) >= 1 THEN data[1] ELSE 0,
                ObjectCount |-> IF Len(data) >= 2 THEN data[2] ELSE 0,
                Objects |-> IF Len(data) >= 3 THEN DecodeObjects(data[3]) ELSE EmptyObjects]]

\* -------------------------------------------------------------- the state
Drift(ix) == ix.CacheSize - SumSizes(ix.Objects, DOMAIN ix.Objects)

\* NewIndex was called with nil indexData and has returned its *Index
Constructed ==
    /\ indexData = [i \in Indexes |-> <<>>]
    /\ ret = [i \in Indexes |-> <<"Index">>]

\* the threads, the lock and the locals when the Indexes have been constructed
InitThreads(cfgsA, cfgsB) ==
    /\ config \in {c \in [Indexes -> cfgsA \cup cfgsB] : c["A"] \in cfgsA /\ c["B"] \in cfgsB}
    /\ indexLock = NoThread
    /\ pc = [t \in Threads |-> "idle"]
    /\ removals = [i \in Indexes |-> <<>>]
    /\ remainders = [i \in Indexes |-> {}]
    /\ reapNow = [i \in Indexes |-> 0]
    /\ cbCalls = [i \in Indexes |-> <<>>]
    /\ bytes = [i \in Indexes |-> <<>>]
    /\ flushed = [i \in Indexes |-> <<>>]

\* NewIndex(name, nil, config, bulkRemoveFunc, flushFunc) for every instance
InitIndexes(cfgsA, cfgsB) ==
    /\ now = 0
    /\ idx = [i \in Indexes |-> NewIndex]
    /\ InitThreads(cfgsA, cfgsB)
    /\ Constructed

\* time passes
Tick ==
    /\ now < MaxTime
    /\ now' = now + 1
    /\ UNCHANGED <<idx, config, indexLock, pc, removals, remainders, reapNow, cbCalls, bytes, flushed, newVars, lvars>>

reapVars == <<removals, remainders, reapNow, cbCalls>>
flushVars == <<bytes, flushed>>

\* ----------------------------------------------------------- construction
\* NewIndex(name, indexData, config, bulkRemoveFunc, flushFunc): `if
\* len(indexData) > 0 { i.UnmarshalMsg(indexData) } else { i.Objects =
\* make(map[string]*Object) }`, the error of UnmarshalMsg is dropped,
\* `return i`
NewIndexFromData(i) ==
    /\ ret[i] = <<>>
    /\ idx' = [idx EXCEPT ![i] = IF Len(indexData[i]) > 0
                                 THEN UnmarshalMsg(indexData[i]).index
                                 ELSE NewIndex]
    /\ ret' = [ret EXCEPT ![i] = <<"Index">>]
    /\ UNCHANGED <<now, config, indexLock, pc, reapVars, flushVars, indexData, lvars>>

\* --------------------------------------------------------------- clients
\* UpdateObject with an empty key: returns before taking the lock
UpdateObjectEmptyKey(t, obj) ==
    /\ RoleOf(t) = "client" /\ pc[t] = "idle"
    /\ obj.Key = ""
    /\ pc' = [pc EXCEPT ![t] = "return"]
    /\ UNCHANGED <<now, idx, config, indexLock, reapVars, flushVars, newVars, lvars>>

\* the caller continues after a call that returned early
Return(t) ==
    /\ RoleOf(t) = "client" /\ pc[t] = "return"
    /\ pc' = [pc EXCEPT ![t] = "idle"]
    /\ UNCHANGED <<now, idx, config, indexLock, reapVars, flushVars, newVars, lvars>>

\* a thread arrives at indexLock.Lock(): a client in UpdateObjectAccessTime,
\* UpdateObject or RemoveObject(key, false), the reaper in reap(), the
\* flusher after its sleep
CallLock(t) ==
    /\ pc[t] = "idle"
    /\ pc' = [pc EXCEPT ![t] = "wait"]
    /\ UNCHANGED <<now, idx, config, indexLock, reapVars, flushVars, newVars, lvars>>

\* indexLock.Lock() of a client
ClientLock(t) ==
    /\ RoleOf(t) = "client" /\ pc[t] = "wait"
    /\ indexLock = NoThread
    /\ indexLock' = t
    /\ pc' = [pc EXCEPT ![t] = "locked"]
    /\ UNCHANGED <<now, idx, config, reapVars, flushVars, newVars, lvars>>

\* UpdateObjectAccessTime(key): the body and the deferred Unlock
UpdateObjectAccessTime(t, key) ==
    /\ RoleOf(t) = "client" /\ pc[t] = "locked"
    /\ idx' = [idx EXCEPT ![IndexOf(t)] = AccessTimeBody(@, key, now)]
    /\ indexLock' = NoThread
    /\ pc' = [pc EXCEPT ![t] = "idle"]
    /\ UNCHANGED <<now, config, reapVars, flushVars, newVars, lvars>>

\* UpdateObject(obj) with a non-empty key: the body and the deferred Unlock
UpdateObject(t, obj) ==
    /\ RoleOf(t) = "client" /\ pc[t] = "locked"
    /\ obj.Key # ""
    /\ idx' = [idx EXCEPT ![IndexOf(t)] = UpdateBody(@, obj, now)]
    /\ Drift(idx'[IndexOf(t)]) \in -MaxDrift..MaxDrift
    /\ indexLock' = NoThread
    /\ pc' = [pc EXCEPT ![t] = "idle"]
    /\ UNCHANGED <<now, config, reapVars, flushVars, newVars, lvars>>

\* RemoveObject(key, false): the body and the deferred Unlock
RemoveObject(t, key) ==
    /\ RoleOf(t) = "client" /\ pc[t] = "locked"
    /\ idx' = [idx EXCEPT ![IndexOf(t)] = RemoveBody(@, key)]
    /\ indexLock' = NoThread
    /\ pc' = [pc EXCEPT ![t] = "idle"]
    /\ UNCHANGED <<now, config, reapVars, flushVars, newVars, lvars>>

\* RemoveObject taking the lock whatever noLock says
PastLockIgnoresFlag(noLock) == indexLock = NoThread

\* RemoveObject(key, noLock): `if !noLock { indexLock.Lock(); ... }`; the
\* call gets past this point when noLock is set or the lock is free
PastLock(noLock) == noLock \/ indexLock = NoThread

\* --------------------------------------------------------------- reaper
\* reap(): indexLock.Lock() and the scan of idx.Objects
ReapScan(t) ==
    LET i == IndexOf(t) IN
    /\ RoleOf(t) = "reaper" /\ pc[t] = "wait"
    /\ indexLock = NoThread
    /\ indexLock' = t
    /\ reapNow' = [reapNow EXCEPT ![i] = now]
    /\ \E r \in SeqsOf(ExpiredKeys(idx[i], now)) : removals' = [removals EXCEPT ![i] = r]
    /\ remainders' = [remainders EXCEPT ![i] = RemainderKeys(idx[i], now)]
    /\ pc' = [pc EXCEPT ![t] = "ttl"]
    /\ UNCHANGED <<now, idx, config, cbCalls, flushVars, newVars, lvars>>

\* reap(): `if len(removals) > 0 { idx.bulkRemoveFunc(removals, true) }`
ReapTTL(t) ==
    LET i == IndexOf(t) IN
    /\ RoleOf(t) = "reaper" /\ pc[t] = "ttl"
    /\ IF Len(removals[i]) > 0
       THEN /\ PastLock(Call(removals[i], TRUE).lockHeld)
            /\ idx' = [idx EXCEPT ![i] = BulkRemove(@, removals[i])]
            /\ cbCalls' = [cbCalls EXCEPT ![i] = Append(@, Call(removals[i], TRUE))]
       ELSE UNCHANGED <<idx, cbCalls>>
    /\ pc' = [pc EXCEPT ![t] = "evict"]
    /\ UNCHANGED <<now, config, indexLock, removals, remainders, reapNow, flushVars, newVars, lvars>>

\* reap(): the eviction phase, up to the return
ReapEvict(t) ==
    LET i == IndexOf(t) IN
    /\ RoleOf(t) = "reaper" /\ pc[t] = "evict"
    /\ IF Pressure(idx[i], config[i], remainders[i])
       THEN \E sorted \in Sorted(idx[i], remainders[i]) :
              LET ev == Evictions(idx[i], config[i], sorted) IN
              IF Len(ev) > 0
              THEN /\ PastLock(Call(ev, TRUE).lockHeld)
                   /\ idx' = [idx EXCEPT ![i] = BulkRemove(@, ev)]
                   /\ cbCalls' = [cbCalls EXCEPT ![i] = Append(@, Call(ev, TRUE))]
              ELSE UNCHANGED <<idx, cbCalls>>
       ELSE UNCHANGED <<idx, cbCalls>>
    /\ pc' = [pc EXCEPT ![t] = "unlock"]
    /\ UNCHANGED <<now, config, indexLock, removals, remainders, reapNow, flushVars, newVars, lvars>>

\* reap(): the deferred indexLock.Unlock() at the return; the locals die
ReapUnlock(t) ==
    LET i == IndexOf(t) IN
    /\ RoleOf(t) = "reaper" /\ pc[t] = "unlock"
    /\ indexLock' = NoThread
    /\ removals' = [removals EXCEPT ![i] = <<>>]
    /\ remainders' = [remainders EXCEPT ![i] = {}]
    /\ reapNow' = [reapNow EXCEPT ![i] = 0]
    /\ cbCalls' = [cbCalls EXCEPT ![i] = <<>>]
    /\ pc' = [pc EXCEPT ![t] = "idle"]
    /\ UNCHANGED <<now, idx, config, flushVars, newVars, lvars>>

\* --------------------------------------------------------------- flusher
\* flusher() going ahead without waiting for the lock
FlushLockNoWait(t) ==
    /\ RoleOf(t) = "flusher" /\ pc[t] = "wait"
    /\ indexLock' = t
    /\ pc' = [pc EXCEPT ![t] = "locked"]
    /\ UNCHANGED <<now, idx, config, reapVars, flushVars, newVars, lvars>>

\* flusher(): indexLock.Lock()
FlushLock(t) ==
    /\ RoleOf(t) = "flusher" /\ pc[t] = "wait"
    /\ indexLock = NoThread
    /\ indexLock' = t
    /\ pc' = [pc EXCEPT ![t] = "locked"]
    /\ UNCHANGED <<now, idx, config, reapVars, flushVars, newVars, lvars>>

\* flusher() keeping the lock over the call of flushFunc
FlushMarshalKeepsLock(t, err) ==
    LET i == IndexOf(t) IN
    /\ RoleOf(t) = "flusher" /\ pc[t] = "locked"
    /\ IF err
       THEN /\ pc' = [pc EXCEPT ![t] = "idle"]
            /\ indexLock' = NoThread
            /\ UNCHANGED bytes
       ELSE /\ pc' = [pc EXCEPT ![t] = "flush"]
            /\ UNCHANGED indexLock
            /\ bytes' = [bytes EXCEPT ![i] = MarshalMsg(idx[i])]
    /\ UNCHANGED <<now, idx, config, reapVars, flushed, newVars, lvars>>

\* flusher(): bytes, err := idx.MarshalMsg(nil); indexLock.Unlock();
\* on an error the loop continues with the next sleep
FlushMarshal(t, err) ==
    LET i == IndexOf(t) IN
    /\ RoleOf(t) = "flusher" /\ pc[t] = "locked"
    /\ indexLock' = NoThread
    /\ IF err
       THEN /\ pc' = [pc EXCEPT ![t] = "idle"]
            /\ UNCHANGED bytes
       ELSE /\ pc' = [pc EXCEPT ![t] = "flush"]
            /\ bytes' = [bytes EXCEPT ![i] = MarshalMsg(idx[i])]
    /\ UNCHANGED <<now, idx, config, reapVars, flushed, newVars, lvars>>

\* flusher(): idx.flushFunc(IndexKey, bytes) is called
FlushFunc(t) ==
    LET i == IndexOf(t) IN
    /\ RoleOf(t) = "flusher" /\ pc[t] = "flush"
    /\ flushed' = [flushed EXCEPT ![i] = <<IndexKey, bytes[i]>>]
    /\ bytes' = [bytes EXCEPT ![i] = <<>>]
    /\ pc' = [pc EXCEPT ![t] = "flushFunc"]
    /\ UNCHANGED <<now, idx, config, indexLock, reapVars, newVars, lvars>>

\* flusher(): flushFunc returns and the loop goes to its next sleep
FlushSleep(t) ==
    LET i == IndexOf(t) IN
    /\ RoleOf(t) = "flusher" /\ pc[t] = "flushFunc"
    /\ flushed' = [flushed EXCEPT ![i] = <<>>]
    /\ pc' = [pc EXCEPT ![t] = "idle"]
    /\ UNCHANGED <<now, idx, config, indexLock, reapVars, bytes, newVars, lvars>>

\* ------------------------------------------------ named lock manager
\* The three critical sections of mapLock (in Acquire before and after
\* l.Lock(), and the whole of Release) contain no blocking call, so each is
\* one step and mapLock itself needs no variable.
Procs == 1..NumProcs
Names == {"k", "other"}
\* mutex objects: every object is referenced by the map or by a caller, so
\* no more than these are ever live at once
Mutexes == 1..(NumProcs + Cardinality(Names))

Referenced(m) ==
    \/ \E n \in DOMAIN locks : locks[n] = m
    \/ \E p \in Procs : l[p] = m

\* &sync.Mutex{}: an object nothing refers to
NewMutex ==
    CHOOSE m \in Mutexes : ~Referenced(m) /\ \A m2 \in Mutexes : ~Referenced(m2) => m <= m2

InitLocks ==
    /\ locks = [n \in {} |-> 0]
    /\ mutex = [m \in Mutexes |-> FALSE]
    /\ lpc = [p \in Procs |-> "idle"]
    /\ lockName = [p \in Procs |-> ""]
    /\ l = [p \in Procs |-> 0]
    /\ fatal = FALSE

\* Acquire's first critical section taking the lock object of whichever
\* name is registered
AcquireLookupAnyName(p, name) ==
    /\ ~fatal /\ lpc[p] = "idle"
    /\ lockName' = [lockName EXCEPT ![p] = name]
    /\ IF DOMAIN locks # {}
       THEN /\ l' = [l EXCEPT ![p] = locks[CHOOSE n \in DOMAIN locks : TRUE]]
            /\ UNCHANGED mutex
       ELSE /\ l' = [l EXCEPT ![p] = NewMutex]
            /\ mutex' = [mutex EXCEPT ![NewMutex] = FALSE]
    /\ lpc' = [lpc EXCEPT ![p] = "lock"]
    /\ UNCHANGED <<locks, fatal, ivars>>

\* Acquire(name), first critical section: mapLock.Lock();
\* `if l, ok = locks[lockName]; !ok { l = &sync.Mutex{} }`; mapLock.Unlock()
AcquireLookup(p, name) ==
    /\ ~fatal /\ lpc[p] = "idle"
    /\ lockName' = [lockName EXCEPT ![p] = name]
    /\ IF name \in DOMAIN locks
       THEN /\ l' = [l EXCEPT ![p] = locks[name]]
            /\ UNCHANGED mutex
       ELSE /\ l' = [l EXCEPT ![p] = NewMutex]
            /\ mutex' = [mutex EXCEPT ![NewMutex] = FALSE]
    /\ lpc' = [lpc EXCEPT ![p] = "lock"]
    /\ UNCHANGED <<locks, fatal, ivars>>

\* Acquire: l.Lock()
AcquireLock(p) ==
    /\ ~fatal /\ lpc[p] = "lock"
    /\ ~mutex[l[p]]
    /\ mutex' = [mutex EXCEPT ![l[p]] = TRUE]
    /\ lpc' = [lpc EXCEPT ![p] = "register"]
    /\ UNCHANGED <<locks, lockName, l, fatal, ivars>>

\* Acquire, second critical section: mapLock.Lock(); locks[lockName] = l;
\* mapLock.Unlock(); return l
AcquireRegister(p) ==
    /\ ~fatal /\ lpc[p] = "register"
    /\ locks' = [n \in DOMAIN locks \cup {lockName[p]} |->
                    IF n = lockName[p] THEN l[p] ELSE locks[n]]
    /\ lpc' = [lpc EXCEPT ![p] = "holder"]
    /\ UNCHANGED <<mutex, lockName, l, fatal, ivars>>

\* the body of Release unlocking the registered object and leaving it in
\* the map
ReleaseBodyKeepsEntry(name) ==
    IF name \in DOMAIN locks
    THEN /\ UNCHANGED locks
         /\ IF ~mutex[locks[name]]
            THEN fatal' = TRUE /\ UNCHANGED mutex
            ELSE /\ mutex' = [mutex EXCEPT ![locks[name]] = FALSE]
                 /\ UNCHANGED fatal
    ELSE UNCHANGED <<locks, mutex, fatal>>

\* the body of Release(name): `if l, ok := locks[lockName]; ok {
\* delete(locks, lockName); l.Unlock() }`.  Unlock of an unlocked mutex is a
\* fatal error of the Go runtime.
ReleaseBody(name) ==
    IF name \in DOMAIN locks
    THEN /\ locks' = [n \in DOMAIN locks \ {name} |-> locks[n]]
         /\ IF ~mutex[locks[name]]
            THEN fatal' = TRUE /\ UNCHANGED mutex
            ELSE /\ mutex' = [mutex EXCEPT ![locks[name]] = FALSE]
                 /\ UNCHANGED fatal
    ELSE UNCHANGED <<locks, mutex, fatal>>

\* a holder calls Release for the name it acquired; it drops the handle
\* that Acquire returned
Release(p) ==
    /\ ~fatal /\ lpc[p] = "holder"
    /\ ReleaseBody(lockName[p])
    /\ l' = [l EXCEPT ![p] = 0]
    /\ lockName' = [lockName EXCEPT ![p] = ""]
    /\ lpc' = [lpc EXCEPT ![p] = "idle"]
    /\ UNCHANGED ivars

\* Release by a caller that holds nothing, without the `ok` test: the
\* Unlock through the nil pointer of an absent name is a fatal error
ReleaseUnheldUnchecked(p, name) ==
    /\ ~fatal /\ lpc[p] = "idle"
    /\ IF name \in DOMAIN locks
       THEN ReleaseBody(name)
       ELSE fatal' = TRUE /\ UNCHANGED <<locks, mutex>>
    /\ lockName' = [lockName EXCEPT ![p] = name]
    /\ lpc' = [lpc EXCEPT ![p] = "released"]
    /\ UNCHANGED <<l, ivars>>

\* a caller that holds nothing calls Release(name): the whole body runs
\* under mapLock, then the call returns
ReleaseUnheld(p, name) ==
    /\ ~fatal /\ lpc[p] = "idle"
    /\ ReleaseBody(name)
    /\ lockName' = [lockName EXCEPT ![p] = name]
    /\ lpc' = [lpc EXCEPT ![p] = "released"]
    /\ UNCHANGED <<l, ivars>>

\* the caller continues after that Release returned
ReleaseReturn(p) ==
    /\ ~fatal /\ lpc[p] = "released"
    /\ lockName' = [lockName EXCEPT ![p] = ""]
    /\ lpc' = [lpc EXCEPT ![p] = "idle"]
    /\ UNCHANGED <<locks, mutex, l, fatal, ivars>>

\* ------------------------------------------------------- specifications
vars == <<ivars, newVars, lvars>>

AClient == <<"A", "client">>
AReaper == <<"A", "reaper">>
AFlusher == <<"A", "flusher">>

\* One Index (instance A) with its client and its reaper.
ThreadsIdx == {<<"A", "client">>, <<"A", "reaper">>}

InitIdx == InitIndexes(Configs, {NoLimits}) /\ InitLocks

\* the calls are made one after the other: no other thread is inside a call
Alone(t) == \A u \in Threads \ {t} : pc[u] = "idle"

NextIdx ==
    \/ Tick
    \/ \E t \in ThreadsIdx :
        \/ Alone(t) /\ CallLock(t)
        \/ ClientLock(t)
        \/ \E v \in Payloads, e \in Expirations :
             Alone(t) /\ UpdateObjectEmptyKey(t, ClientObject("", v, e))
        \/ Return(t)
        \/ \E k \in Keys : UpdateObjectAccessTime(t, k)
        \/ \E k \in Keys, v \in Payloads, e \in Expirations :
             UpdateObject(t, ClientObject(k, v, e))
        \/ \E k \in Keys : RemoveObject(t, k)
        \/ ReapScan(t)
        \/ ReapTTL(t)
        \/ ReapEvict(t)
        \/ ReapUnlock(t)

Spec == InitIdx /\ [][NextIdx]_vars

\* One Index (instance A) and its client alone, making any sequence of
\* calls as time passes.
KeysClient == {"a", "b"}
ExpirationsClient == {MaxTime}

InitClient == InitIndexes({NoLimits}, {NoLimits}) /\ InitLocks

NextClient ==
    \/ Tick
    \/ CallLock(AClient)
    \/ ClientLock(AClient)
    \/ \E v \in Payloads, e \in ExpirationsClient :
         UpdateObjectEmptyKey(AClient, ClientObject("", v, e))
    \/ Return(AClient)
    \/ \E k \in KeysClient : UpdateObjectAccessTime(AClient, k)
    \/ \E k \in KeysClient, v \in Payloads, e \in ExpirationsClient :
         UpdateObject(AClient, ClientObject(k, v, e))
    \/ \E k \in KeysClient : RemoveObject(AClient, k)

SpecClient == InitClient /\ [][NextClient]_vars

\* Two Index instances running concurrently: instance A with its client,
\* reaper and flusher, instance B with its reaper.
ThreadsConc == {<<"A", "client">>, <<"A", "reaper">>, <<"A", "flusher">>, <<"B", "reaper">>}
KeysConc == {"a"}
PayloadsConc == {<<0>>}
ExpirationsConc == {0}

InitConc == InitIndexes({ObjectsLimit}, {NoLimits}) /\ InitLocks

NextConc ==
    \/ Tick
    \/ \E t \in ThreadsConc :
        \/ CallLock(t)
        \/ ClientLock(t)
        \/ \E v \in PayloadsConc, e \in ExpirationsConc :
             UpdateObjectEmptyKey(t, ClientObject("", v, e))
        \/ Return(t)
        \/ \E k \in KeysConc : UpdateObjectAccessTime(t, k)
        \/ \E k \in KeysConc, v \in PayloadsConc, e \in ExpirationsConc :
             UpdateObject(t, ClientObject(k, v, e))
        \/ \E k \in KeysConc : RemoveObject(t, k)
        \/ ReapScan(t)
        \/ ReapTTL(t)
        \/ ReapEvict(t)
        \/ ReapUnlock(t)
        \/ FlushLock(t)
        \/ \E err \in BOOLEAN : FlushMarshal(t, err)
        \/ FlushFunc(t)
        \/ FlushSleep(t)

SpecConc == InitConc /\ [][NextConc]_vars

\* The same threads under fair scheduling: a thread that can take its next
\* step takes it, and indexLock.Lock() returns for a waiting thread once the
\* lock keeps becoming free.
FairConc ==
    \A t \in ThreadsConc :
        /\ SF_vars(ClientLock(t) \/ ReapScan(t) \/ FlushLock(t))
        /\ WF_vars(\/ \E k \in KeysConc, v \in PayloadsConc, e \in ExpirationsConc :
                        \/ UpdateObjectAccessTime(t, k)
                        \/ UpdateObject(t, ClientObject(k, v, e))
                        \/ RemoveObject(t, k)
                   \/ Return(t)
                   \/ ReapTTL(t) \/ ReapEvict(t) \/ ReapUnlock(t)
                   \/ (\E err \in BOOLEAN : FlushMarshal(t, err))
                   \/ FlushFunc(t) \/ FlushSleep(t))

SpecConcFair == SpecConc /\ FairConc

\* One Index (instance A) that clients have filled, and its reaper running
\* reap cycles on it.
KeysReap == {"a", "b", "c", IndexKey}
\* what the clients wrote for one key: nothing (<<>>), or a payload length,
\* an expiration and the time of the write
Written(k) ==
    IF k = IndexKey THEN {<<>>, <<1, 1, 0>>}
    ELSE {<<>>} \cup ((0..MaxSize) \X Expirations \X (0..MaxTime))

BytesBackoff == [MaxSizeBytes |-> 4, MaxSizeBackoffBytes |-> 1, MaxSizeObjects |-> 0, MaxSizeBackoffObjects |-> 0]
BytesNoBackoff == [MaxSizeBytes |-> 1, MaxSizeBackoffBytes |-> 1, MaxSizeObjects |-> 0, MaxSizeBackoffObjects |-> 0]
ObjectsNoBackoff == [MaxSizeBytes |-> 0, MaxSizeBackoffBytes |-> 0, MaxSizeObjects |-> 2, MaxSizeBackoffObjects |-> 0]
BothLimits == [MaxSizeBytes |-> 2, MaxSizeBackoffBytes |-> 0, MaxSizeObjects |-> 1, MaxSizeBackoffObjects |-> 0]
ConfigsReap == {BytesBackoff, BytesNoBackoff, ObjectsNoBackoff, ObjectsBackoff, BothLimits}

\* the Index after the clients' UpdateObject calls w, made in the order of
\* their times
RECURSIVE Filled(_, _, _)
Filled(ix, w, ks) ==
    IF ks = {} THEN ix
    ELSE LET k == CHOOSE x \in ks : \A y \in ks : w[x][3] <= w[y][3]
         IN Filled(UpdateBody(ix, ClientObject(k, [j \in 1..w[k][1] |-> 0], w[k][2]), w[k][3]),
                   w, ks \ {k})

InitReap ==
    /\ InitThreads(ConfigsReap, {NoLimits}) /\ InitLocks /\ Constructed
    /\ \E w \in [KeysReap -> UNION {Written(k) : k \in KeysReap}] :
         /\ \A k \in KeysReap : w[k] \in Written(k)
         /\ idx = [i \in Indexes |->
                     IF i = "A" THEN Filled(NewIndex, w, {k \in KeysReap : w[k] # <<>>})
                     ELSE NewIndex]
    /\ now = MaxTime

NextReap ==
    \/ CallLock(AReaper)
    \/ ReapScan(AReaper)
    \/ ReapTTL(AReaper)
    \/ ReapEvict(AReaper)
    \/ ReapUnlock(AReaper)

SpecReap == InitReap /\ [][NextReap]_vars

\* The construction of one Index (instance A) from persisted bytes: nothing,
\* a snapshot that a flusher wrote, or the beginning of one.
Snapshots ==
    {MarshalMsg(Filled(NewIndex, w, {k \in KeysClient : w[k] # <<>>})) :
        w \in {x \in [KeysClient -> UNION {Written(k) : k \in KeysClient}] :
                  \A k \in KeysClient : x[k] \in Written(k)}}
Truncated == {SubSeq(s, 1, n) : s \in Snapshots, n \in 1..2}
PersistedData == {<<>>} \cup Snapshots \cup Truncated

InitNew ==
    /\ now = 0
    /\ idx = [i \in Indexes |-> NewIndex]
    /\ InitThreads({NoLimits}, {NoLimits}) /\ InitLocks
    /\ \E d \in PersistedData : indexData = [i \in Indexes |-> IF i = "A" THEN d ELSE <<>>]
    /\ ret = [i \in Indexes |-> IF i = "A" THEN <<>> ELSE <<"Index">>]

NextNew == NewIndexFromData("A")

SpecNew == InitNew /\ [][NextNew]_vars

\* The callers of the named lock manager; every caller releases the name
\* it acquired, after its Acquire returned.
InitLockManager == InitIndexes({NoLimits}, {NoLimits}) /\ InitLocks

NextLocks ==
    \E p \in Procs :
        \/ \E name \in Names : AcquireLookup(p, name)
        \/ AcquireLock(p)
        \/ AcquireRegister(p)
        \/ Release(p)

SpecLocks == InitLockManager /\ [][NextLocks]_vars

\* The same callers under fair scheduling: callers keep calling Acquire, a
\* sync.Mutex is handed to a waiting Lock() once it stays or keeps becoming
\* free, a caller past l.Lock() registers and returns, and every holder
\* calls Release.
FairLocks ==
    \A p \in Procs :
        /\ WF_vars(\E name \in Names : AcquireLookup(p, name))
        /\ SF_vars(AcquireLock(p))
        /\ WF_vars(AcquireRegister(p))
        /\ WF_vars(Release(p))

SpecLocksFair == SpecLocks /\ FairLocks

\* The callers of the lock manager when Release is also called by callers
\* that hold nothing (calls not matched by an Acquire).
NextUnmatched ==
    \E p \in Procs :
        \/ \E name \in Names : AcquireLookup(p, name)
        \/ AcquireLock(p)
        \/ AcquireRegister(p)
        \/ Release(p)
        \/ \E name \in Names : ReleaseUnheld(p, name)
        \/ ReleaseReturn(p)

SpecUnmatched == InitLockManager /\ [][NextUnmatched]_vars

\* ---------------------------------------------------------------- claims
A == idx["A"]

\* C1: after any sequence of UpdateObject and RemoveObject calls on one
\* Index, CacheSize is the sum of Size over the entries in Objects.
C1_CacheSizeIsSumOfSizes ==
    A.CacheSize = SumSizes(A.Objects, DOMAIN A.Objects)

\* C3: UpdateObject on a key that already has an entry leaves ObjectCount
\* unchanged and changes CacheSize by the byte length of the new payload
\* minus the Size of the prior entry.
C3_UpdateExistingAdjustsCacheSize ==
    [][\A k \in Keys, v \in Payloads, e \in Expirations :
          (UpdateObject(AClient, ClientObject(k, v, e)) /\ k \in DOMAIN A.Objects)
          => /\ idx'["A"].ObjectCount = A.ObjectCount
             /\ idx'["A"].CacheSize - A.CacheSize = Len(v) - A.Objects[k].Size]_vars

\* C4: after any sequence of UpdateObject, UpdateObjectAccessTime and
\* RemoveObject calls and reap cycles, ObjectCount is the number of entries
\* in Objects.
C4_ObjectCountIsCardinality ==
    A.ObjectCount = Cardinality(DOMAIN A.Objects)

\* C4 witness: a reap cycle has removed entries through the callback and
\* entries are left
C4_Witness ==
    /\ pc[AReaper] = "unlock"
    /\ Len(cbCalls["A"]) = 2
    /\ A.ObjectCount >= 1

\* C13: UpdateObject with an empty key, UpdateObjectAccessTime on an absent
\* key and RemoveObject on an absent key leave Objects, CacheSize and
\* ObjectCount as they were; UpdateObjectAccessTime on a present key
\* changes only the LastAccess of that entry.
C13_NoOpCallsLeaveIndexUnchanged ==
    [][/\ \A v \in Payloads, e \in ExpirationsClient :
            UpdateObjectEmptyKey(AClient, ClientObject("", v, e)) => idx' = idx
       /\ \A k \in KeysClient :
            (UpdateObjectAccessTime(AClient, k) /\ k \notin DOMAIN A.Objects) => idx' = idx
       /\ \A k \in KeysClient :
            (RemoveObject(AClient, k) /\ k \notin DOMAIN A.Objects) => idx' = idx
       /\ \A k \in KeysClient :
            (UpdateObjectAccessTime(AClient, k) /\ k \in DOMAIN A.Objects)
            => /\ idx'["A"].CacheSize = A.CacheSize
               /\ idx'["A"].ObjectCount = A.ObjectCount
               /\ DOMAIN idx'["A"].Objects = DOMAIN A.Objects
               /\ \A j \in DOMAIN A.Objects \ {k} : idx'["A"].Objects[j] = A.Objects[j]
               /\ idx'["A"].Objects[k] = [A.Objects[k] EXCEPT !.LastAccess = now]
               /\ idx'["B"] = idx["B"]]_vars

\* C13 witness: UpdateObjectAccessTime has stamped one entry after it was
\* written, next to an entry it left alone
C13_Witness ==
    /\ pc[AClient] = "idle"
    /\ \E k, j \in DOMAIN A.Objects :
          /\ k # j
          /\ A.Objects[k].LastAccess > A.Objects[k].LastWrite
          /\ A.Objects[j].LastAccess = A.Objects[j].LastWrite

\* ------------------------------------------------- claims about reap()
cfgA == config["A"]
\* the live non-reserved entries of a reap cycle with timestamp reapNow
Live == {k \in DOMAIN A.Objects : k # IndexKey /\ A.Objects[k].Expiration >= reapNow["A"]}
\* the non-reserved entries that expired strictly before reapNow
Stale == {k \in DOMAIN A.Objects : k # IndexKey /\ A.Objects[k].Expiration < reapNow["A"]}
\* the steps of the reaper of A
TTLStep == pc[AReaper] = "ttl" /\ pc'[AReaper] = "evict"
EvictStep == pc[AReaper] = "evict" /\ pc'[AReaper] = "unlock"
\* the bulk-removal callback is not called in this step
NoCallback == cbCalls'["A"] = cbCalls["A"] /\ idx'["A"] = A
\* the bulk-removal callback is called once in this step, with the keys s
\* and the lock-already-held flag, and removes exactly these keys
OneCallback(s) ==
    /\ cbCalls'["A"] = Append(cbCalls["A"], [keys |-> s, lockHeld |-> TRUE])
    /\ DOMAIN idx'["A"].Objects = DOMAIN A.Objects \ Range(s)
\* the keys of the last callback of the step
LastKeys == cbCalls'["A"][Len(cbCalls'["A"])].keys
\* accumulated Size of the first m entries of s
Accumulated(s, m) == SumSizes(A.Objects, {s[j] : j \in 1..m})
\* s lists distinct entries of Live in ascending LastAccess order, and no
\* entry of Live outside s was accessed before one in s
LruPrefix(s) ==
    /\ \A a, b \in 1..Len(s) : a # b => s[a] # s[b]
    /\ Range(s) \subseteq Live
    /\ \A a, b \in 1..Len(s) :
         a < b => A.Objects[s[a]].LastAccess <= A.Objects[s[b]].LastAccess
    /\ \A e \in Range(s), r \in Live \ Range(s) :
         A.Objects[e].LastAccess <= A.Objects[r].LastAccess
Min(a, b) == IF a < b THEN a ELSE b
BytePressure == cfgA.MaxSizeBytes > 0 /\ A.CacheSize > cfgA.MaxSizeBytes
CountPressure == cfgA.MaxSizeObjects > 0 /\ A.ObjectCount > cfgA.MaxSizeObjects
\* an eviction callback was made in the cycle that is at its return
Evicted ==
    /\ pc[AReaper] = "unlock"
    /\ Len(cbCalls["A"]) = (IF removals["A"] = <<>> THEN 1 ELSE 2)
EvictedKeys == cbCalls["A"][Len(cbCalls["A"])].keys

\* C6: with byte-based eviction disabled (MaxSizeBytes <= 0) and count
\* pressure, a reap cycle evicts exactly objectsNeeded = ObjectCount -
\* MaxSizeObjects (+ MaxSizeBackoffObjects when MaxSizeObjects >
\* MaxSizeBackoffObjects) of the least-recently-accessed live non-reserved
\* entries (all of them when there are fewer) and no others.
C6_CountEvictionEvictsObjectsNeeded ==
    [][(EvictStep /\ cfgA.MaxSizeBytes <= 0 /\ CountPressure)
       => LET objectsNeeded ==
                  (A.ObjectCount - cfgA.MaxSizeObjects)
                    + (IF cfgA.MaxSizeObjects > cfgA.MaxSizeBackoffObjects
                       THEN cfgA.MaxSizeBackoffObjects ELSE 0)
          IN IF Live = {} THEN NoCallback
             ELSE /\ OneCallback(LastKeys)
                  /\ LruPrefix(LastKeys)
                  /\ Len(LastKeys) = Min(objectsNeeded, Cardinality(Live))]_vars

\* C7: with MaxSizeBytes > 0 and CacheSize > MaxSizeBytes after the TTL
\* removal, the keys handed to the bulk-removal callback are the shortest
\* prefix of the live non-reserved entries in ascending LastAccess order
\* whose accumulated Size is >= bytesNeeded = CacheSize - MaxSizeBytes (+
\* MaxSizeBackoffBytes when MaxSizeBytes > MaxSizeBackoffBytes), or all live
\* entries if the list is exhausted first; no evicted entry has a later
\* LastAccess than a retained live entry, and CacheSize goes down by the
\* evicted sizes.
C7_ByteEvictionIsShortestLruPrefix ==
    [][(EvictStep /\ BytePressure)
       => LET bytesNeeded ==
                  (A.CacheSize - cfgA.MaxSizeBytes)
                    + (IF cfgA.MaxSizeBytes > cfgA.MaxSizeBackoffBytes
                       THEN cfgA.MaxSizeBackoffBytes ELSE 0)
          IN IF Live = {} THEN NoCallback
             ELSE LET s == LastKeys IN
                  /\ OneCallback(s)
                  /\ LruPrefix(s)
                  /\ Len(s) >= 1
                  /\ Accumulated(s, Len(s) - 1) < bytesNeeded
                  /\ Accumulated(s, Len(s)) >= bytesNeeded \/ Range(s) = Live
                  /\ idx'["A"].CacheSize = A.CacheSize - Accumulated(s, Len(s))]_vars

\* C7 witness: a byte eviction with backoff has evicted two entries and
\* retained a live one that was accessed later
C7_Witness ==
    /\ Evicted
    /\ cfgA = BytesBackoff
    /\ Len(EvictedKeys) = 2
    /\ \E r \in Live : \A e \in Range(EvictedKeys) : r # e
    /\ A.CacheSize = 2

\* C8: in a reap cycle with no size or count pressure the keys passed to
\* the bulk-removal callback are exactly the non-reserved entries whose
\* Expiration is strictly before the reap timestamp, these and no others
\* are removed, and without such an entry the callback is not invoked.
C8_TTLRemovesExactlyExpired ==
    [][/\ TTLStep => IF Stale = {} THEN NoCallback
                     ELSE /\ OneCallback(LastKeys)
                          /\ Range(LastKeys) = Stale
                          /\ Len(LastKeys) = Cardinality(Stale)
       /\ (EvictStep /\ ~BytePressure /\ ~CountPressure) => NoCallback]_vars

\* C8 witness: a cycle without pressure removed one expired entry and kept
\* an entry whose Expiration is the reap timestamp itself
C8_Witness ==
    /\ pc[AReaper] = "unlock"
    /\ Len(cbCalls["A"]) = 1 /\ Len(cbCalls["A"][1].keys) = 1
    /\ removals["A"] # <<>>
    /\ \E k \in Live : A.Objects[k].Expiration = reapNow["A"]

\* C9: no reap cycle passes the reserved key to the bulk-removal callback,
\* in neither phase, and no step of a reap cycle removes or changes the
\* entry stored under it.
C9_ReservedKeyNeverReaped ==
    [][/\ \A j \in 1..Len(cbCalls'["A"]) : IndexKey \notin Range(cbCalls'["A"][j].keys)
       /\ (pc[AReaper] \in {"wait", "ttl", "evict", "unlock"} /\ pc'[AReaper] # pc[AReaper]
           /\ IndexKey \in DOMAIN A.Objects)
          => /\ IndexKey \in DOMAIN idx'["A"].Objects
             /\ idx'["A"].Objects[IndexKey] = A.Objects[IndexKey]]_vars

\* C9 witness: a cycle made both callbacks while the reserved entry was
\* expired and the least recently accessed, and the entry is still there
C9_Witness ==
    /\ pc[AReaper] = "unlock"
    /\ Len(cbCalls["A"]) = 2
    /\ IndexKey \in DOMAIN A.Objects
    /\ A.Objects[IndexKey].Expiration < reapNow["A"]
    /\ A.Objects[IndexKey].LastAccess = 0
    /\ A.Objects[IndexKey].Size > 0

\* the live non-reserved entries that ix still has
LiveIn(ix) == {k \in DOMAIN ix.Objects : k # IndexKey /\ ix.Objects[k].Expiration >= reapNow["A"]}

C12_DeserializationFailureSurfaced ==
    (ret["A"] # <<>> /\ Len(indexData["A"]) > 0 /\ UnmarshalMsg(indexData["A"]).err)
    => "error" \in Range(ret["A"])

\* ------------------------------------------ claims about the index lock
\* C10: operations on two different Index instances never block each
\* other: no thread waits at indexLock.Lock() while the lock is held by a
\* thread of another Index.
C10_NoCrossIndexBlocking ==
    \A t \in Threads :
        (pc[t] = "wait" /\ indexLock # NoThread) => IndexOf(indexLock) = IndexOf(t)

\* the lock-held section of a thread: between its indexLock.Lock() and its
\* indexLock.Unlock()
InSection(t) ==
    \/ RoleOf(t) \in {"client", "flusher"} /\ pc[t] = "locked"
    \/ RoleOf(t) = "reaper" /\ pc[t] \in {"ttl", "evict", "unlock"}
ThreadsA == {t \in Threads : IndexOf(t) = "A"}

\* C15: a reap cycle holds the index lock for the whole cycle, makes every
\* bulk-removal callback with the lock-already-held flag set, terminates
\* and releases the lock, and a client blocked on the lock during the
\* cycle eventually gets the lock.
C15_ReapNeverSelfDeadlocks ==
    /\ [](InSection(AReaper) => indexLock = AReaper)
    /\ [](\A j \in 1..Len(cbCalls["A"]) : cbCalls["A"][j].lockHeld)
    /\ (InSection(AReaper) ~> (pc[AReaper] = "idle" /\ indexLock # AReaper))
    /\ ((pc[AClient] = "wait" /\ InSection(AReaper)) ~> (pc[AClient] = "locked"))

\* C15 witness: the cycle has made a callback and is at its return while
\* the client and the flusher of the same Index wait for the lock
C15_Witness ==
    /\ pc[AReaper] = "unlock" /\ indexLock = AReaper
    /\ Len(cbCalls["A"]) >= 1
    /\ pc[AClient] = "wait" /\ pc[AFlusher] = "wait"

\* C16: for one Index the lock-held sections of reap, of the flusher's
\* serialization and of the client calls never overlap; the Index changes
\* only in a step of the thread that holds the lock; and the flusher
\* serializes the Index as it is while no reap cycle and no client call is
\* inside its section.
C16_LockHeldSectionsExclusive ==
    [][/\ \A t, u \in ThreadsA : (InSection(t) /\ InSection(u)) => t = u
       /\ \A t \in ThreadsA : InSection(t) => indexLock = t
       /\ idx'["A"] # A => (indexLock \in ThreadsA /\ pc'[indexLock] # pc[indexLock])
       /\ (pc[AFlusher] = "locked" /\ pc'[AFlusher] = "flush")
          => /\ bytes'["A"] = MarshalMsg(A)
             /\ ~InSection(AReaper) /\ ~InSection(AClient)]_vars

\* C16 witness: the flusher has serialized an Index with an entry while the
\* reaper and the client were kept waiting for the lock
C16_Witness ==
    /\ pc[AFlusher] = "flush" /\ bytes["A"] = MarshalMsg(A)
    /\ A.ObjectCount = 1
    /\ pc[AReaper] = "wait" /\ pc[AClient] = "wait"

\* C17: the flusher calls the persistence callback only after it released
\* the index lock, with the reserved key and the bytes it serialized in the
\* same iteration; when the serialization fails it makes no call and goes
\* to its next sleep.
C17_FlushOutsideLock ==
    [][/\ (pc[AFlusher] = "flush" /\ pc'[AFlusher] = "flushFunc")
          => /\ indexLock # AFlusher /\ indexLock' # AFlusher
             /\ flushed'["A"] = <<IndexKey, bytes["A"]>>
       /\ pc[AFlusher] \in {"flush", "flushFunc"} => indexLock # AFlusher
       /\ (pc[AFlusher] = "locked" /\ pc'[AFlusher] = "flush")
          => bytes'["A"] = MarshalMsg(A) /\ indexLock' # AFlusher
       /\ (pc[AFlusher] = "flush" /\ pc'[AFlusher] = "flush") => bytes'["A"] = bytes["A"]
       /\ FlushMarshal(AFlusher, TRUE)
          => flushed' = flushed /\ pc'[AFlusher] = "idle" /\ indexLock' # AFlusher
       /\ flushed'["A"] # flushed["A"] => pc[AFlusher] \in {"flush", "flushFunc"}]_vars

\* C17 witness: the callback is running with the reserved key and a
\* snapshot taken before the latest change of the Index, while the reaper
\* holds the lock
C17_Witness ==
    /\ pc[AFlusher] = "flushFunc"
    /\ flushed["A"][1] = IndexKey
    /\ flushed["A"][2] # MarshalMsg(A)
    /\ indexLock = AReaper

\* -------------------------------------- claims about the lock manager
\* C2: for the same name at most one caller at a time is a holder, between
\* the return of its Acquire and its Release.
C2_OneHolderPerName ==
    \A p, q \in Procs :
        (p # q /\ lpc[p] = "holder" /\ lpc[q] = "holder") => lockName[p] # lockName[q]

\* no caller is between the return of its Acquire(name) and its Release
NoHolder(name) == \A q \in Procs : ~(lpc[q] = "holder" /\ lockName[q] = name)
\* the lock object of caller p, given the handles ls and the registry reg,
\* is known to no other caller and is not registered
Unshared(p, ls, reg) ==
    /\ \A q \in Procs \ {p} : ls[q] # ls[p]
    /\ \A n \in DOMAIN reg : reg[n] # ls[p]

\* C11: Acquire and Release for disjoint names never block each other.  An
\* Acquire(a) called while a has no holder gets a lock object that is
\* unlocked and known to nobody else, and it stays so until the caller
\* locks it, whatever callers of other names do; the lock object a caller
\* waits for is locked and unlocked only by callers of the same name; and
\* a holder's Release can always run (it waits for no holder).
C11_DisjointNamesNeverBlock ==
    [][/\ \A p \in Procs, a \in Names :
            (AcquireLookup(p, a) /\ NoHolder(a))
            => ~mutex'[l'[p]] /\ Unshared(p, l', locks')
       /\ \A p \in Procs :
            (lpc[p] = "lock" /\ lpc'[p] = "lock" /\ ~mutex[l[p]] /\ Unshared(p, l, locks))
            => ~mutex'[l[p]] /\ Unshared(p, l', locks')
       /\ \A p \in Procs :
            (lpc[p] = "lock" /\ lpc'[p] = "lock" /\ mutex'[l[p]] # mutex[l[p]])
            => \E q \in Procs \ {p} : lpc'[q] # lpc[q] /\ lockName[q] = lockName[p]
       /\ \A p \in Procs : lpc[p] = "holder" => ENABLED Release(p)]_vars

\* C11 witness: Acquire("other") has returned while one caller holds "k"
\* and another is blocked in Acquire("k")
C11_Witness ==
    \E p, q, r \in Procs :
        /\ lpc[p] = "holder" /\ lockName[p] = "other"
        /\ lpc[q] = "holder" /\ lockName[q] = "k"
        /\ lpc[r] = "lock" /\ lockName[r] = "k" /\ mutex[l[r]]

\* C14: Release(name) for a name that is not registered returns without
\* blocking, leaves the registry unchanged and changes the locked/unlocked
\* state of no lock object (and is no fatal error).
C14_ReleaseUnregisteredIsNoOp ==
    [][\A p \in Procs :
          /\ (lpc[p] = "idle" /\ lpc'[p] = "released" /\ lockName'[p] \notin DOMAIN locks)
             => locks' = locks /\ mutex' = mutex /\ fatal' = fatal /\ l' = l
          /\ (lpc[p] = "holder" /\ lpc'[p] = "idle" /\ lockName[p] \notin DOMAIN locks)
             => locks' = locks /\ mutex' = mutex /\ fatal' = fatal
          /\ \A name \in Names :
               (lpc[p] = "idle" /\ name \notin DOMAIN locks) => ENABLED ReleaseUnheld(p, name)]_vars

\* C14 witness: a Release("k") by a caller that holds nothing has returned
\* while "k" is not registered and the object registered for "other" is
\* still locked and held
C14_Witness ==
    \E p, q \in Procs :
        /\ lpc[p] = "released" /\ lockName[p] = "k"
        /\ DOMAIN locks = {"other"}
        /\ lpc[q] = "holder" /\ lockName[q] = "other"
        /\ locks["other"] = l[q] /\ mutex[l[q]]
        /\ \A m \in Mutexes : mutex[m] <=> m = l[q]

\* C19: with matched calls, a Release(name) unlocks the lock object that
\* the releasing caller itself acquired: it unlocks no other object and
\* does not leave its own locked.
C19_ReleaseUnlocksOwnObject ==
    [][\A p \in Procs :
          Release(p) => /\ ~mutex'[l[p]]
                        /\ \A m \in Mutexes : (mutex[m] /\ ~mutex'[m]) => m = l[p]]_vars

\* C20: in every interleaving of Acquire and Release calls, matched or
\* not, every lock object registered in the map is locked, and no Release
\* unlocks an unlocked mutex (the fatal error of the runtime).
C20_RegisteredIsLocked ==
    /\ \A n \in DOMAIN locks : mutex[locks[n]]
    /\ ~fatal

\* C20 witness: a Release by a caller that holds nothing has unlocked and
\* unregistered the object of a holder, and another caller has since
\* registered a new locked object under the same name
C20_Witness ==
    \E p, q, r \in Procs :
        /\ lpc[p] = "released" /\ lockName[p] = "k"
        /\ lpc[q] = "holder" /\ lockName[q] = "k" /\ ~mutex[l[q]]
        /\ lpc[r] = "holder" /\ lockName[r] = "k" /\ mutex[l[r]]
        /\ "k" \in DOMAIN locks /\ locks["k"] = l[r]

\* C5: under fair scheduling, with every holder releasing once, every
\* caller blocked in l.Lock() of Acquire eventually gets past it.
C5_BlockedAcquirerEventuallyReturns ==
    \A p \in Procs : (lpc[p] = "lock") ~> (lpc[p] = "holder")

====
